---- MODULE Spec2Model ----
(***************************************************************************)
(* A model of the merc document-extraction service: the POST /upload       *)
(* handler (src/routes/upload.ts), waitForVectorStoreReady                 *)
(* (src/lib/vectorStore.ts), the GET /ask/:fileId handler                  *)
(* (src/routes/ask.ts) and the POST /export/excel handler                  *)
(* (src/routes/exportExcel.ts).  One request (or one library call) is      *)
(* followed from its arrival to its response; the remote service is an     *)
(* adversary that picks every result it returns.                           *)
(***************************************************************************)
EXTENDS Integers, Sequences, FiniteSets, TLC

VARIABLES
    route,          \* the router (or library function) the request was given to
    pc,             \* position of the handler / call being followed
    clock,          \* Date.now(), in milliseconds since the request arrived
    log,            \* remote calls and sleeps performed so far, in order
    responses,      \* HTTP responses sent for the request, in order
    fileId,         \* upload.ts: const fileId
    vectorStoreId,  \* upload.ts: const vectorStoreId; vectorStore.ts: parameter
    batchId,        \* upload.ts: const batchId
    start,          \* vectorStore.ts: const start; upload.ts: time of the first poll
    timeoutMs,      \* vectorStore.ts: parameter timeoutMs
    waitResult,     \* vectorStore.ts: what waitForVectorStoreReady returned or threw
    request,        \* ask.ts: parsed.tables; exportExcel.ts: data.tables
    askData,        \* ask.ts: data.tables of the response
    workbook        \* exportExcel.ts: the sheets added to wb, in order

vars == <<route, pc, clock, log, responses, fileId, vectorStoreId, batchId, start,
          timeoutMs, waitResult, request, askData, workbook>>

----------------------------------------------------------------------------
(* Bounds of the model *)

\* job-status (or container-status) fetches followed in one polling loop
MaxPolls == 3
\* entries in the per-file result list the remote service returns
MaxFiles == 2
\* tables in the body of one /ask output or one /export/excel request
MaxTables == 3
\* largest timeoutMs argument, in poll intervals
MaxTimeoutSteps == 2
\* how long a remote call may take (ms)
LatencyMs == 1000

(* Program constants *)

\* sleep(1500) in both polling loops
PollIntervalMs == 1500
\* .slice(0, 31) and 31 - suffix.length
MaxSheetNameLen == 31

Lags == {0, LatencyMs}

----------------------------------------------------------------------------
(* JavaScript values and strings *)

Undefined == [t |-> "undefined", n |-> 0, s |-> ""]
Null      == [t |-> "null", n |-> 0, s |-> ""]
Num(n)    == [t |-> "number", n |-> n, s |-> ""]
Str(s)    == [t |-> "string", n |-> 0, s |-> s]
\* a built-in function object, such as Object or Object.prototype.toString
Fn(name)  == [t |-> "function", n |-> 0, s |-> name]

\* String(v)
JsString(v) ==
    CASE v.t = "undefined" -> "undefined"
      [] v.t = "null"      -> "null"
      [] v.t = "number"    -> ToString(v.n)
      [] v.t = "string"    -> v.s
      [] v.t = "function"  -> "function " \o v.s \o "() { [native code] }"

\* v ?? d
Nullish(v, d) == IF v.t \in {"undefined", "null"} THEN d ELSE v

Min(a, b) == IF a < b THEN a ELSE b

\* s.slice(0, n) for n >= 0
Slice(s, n) == SubSeq(s, 1, Min(n, Len(s)))

CharAt(s, i) == SubSeq(s, i, i)

\* the characters \s matches and trim() removes, among those the model uses
IsSpace(ch) == ch \in {" ", "\t"}

RECURSIVE TrimStart(_)
TrimStart(s) ==
    IF Len(s) > 0 /\ IsSpace(CharAt(s, 1))
    THEN TrimStart(SubSeq(s, 2, Len(s)))
    ELSE s

RECURSIVE TrimEnd(_)
TrimEnd(s) ==
    IF Len(s) > 0 /\ IsSpace(CharAt(s, Len(s)))
    THEN TrimEnd(SubSeq(s, 1, Len(s) - 1))
    ELSE s

\* s.trim()
Trim(s) == TrimEnd(TrimStart(s))

Last(q) == q[Len(q)]

----------------------------------------------------------------------------
(* POST /upload *)

\* what an awaited remote call does: it throws, or it returns a value
Threw(message) == [threw |-> TRUE, message |-> message, value |-> ""]
Returned(value) == [threw |-> FALSE, message |-> "", value |-> value]

\* err?.message of an error thrown by the remote client
RemoteErrors == {"Connection error.", "undefined"}

\* the id field of a created remote object
RemoteIds(good) == {Str(g) : g \in good} \cup {Str(""), Str("  "), Undefined}

FileIds == {"file-1", "file-2"}

BatchStatuses == {"in_progress", "cancelled", "completed", "failed"}

FileStatuses == {"in_progress", "completed", "failed"}

\* a slip: only the type is tested, a blank id passes
assertString_TypeOnly(name, value) ==
    IF value.t # "string"
    THEN Threw(name \o " missing/invalid: " \o JsString(value))
    ELSE Returned(value.s)

assertString(name, value) ==
    IF value.t # "string" \/ Trim(value.s) = ""
    THEN Threw(name \o " missing/invalid: " \o JsString(value))
    ELSE Returned(value.s)

\* one call made to the remote service, or one sleep
\* what it returned (status; data for a list) and when it was over (at)
Call(op, status, data, at) == [op |-> op, status |-> status, data |-> data, at |-> at]

Response(code, ok, error, batchStatus, files) ==
    [code |-> code, ok |-> ok, error |-> error, batchStatus |-> batchStatus,
     files |-> files]

NoFiles == <<>>

\* catch (err): res.status(500).json({ ok: false, error: err?.message ?? "Upload failed" })
UploadCatch(message) ==
    Response(500, FALSE, IF message = "undefined" THEN "Upload failed" ELSE message,
             "", NoFiles)

\* a slip: a failed job is polled again like a pending one
BatchPollStep_FailedKeepsPolling(status) ==
    IF status = "completed" THEN "u_list" ELSE "u_sleep"

\* a slip: the sleep is left out and the loop spins
BatchPollStep_NoSleep(status) ==
    IF status = "completed" THEN "u_list"
    ELSE IF status = "failed" THEN "fail"
    ELSE "u_poll"

\* the body of one iteration of the loop after the batch was retrieved: where
\* the handler goes next ("fail": it responds and returns)
BatchPollStep(status) ==
    IF status = "completed" THEN "u_list"
    ELSE IF status = "failed" THEN "fail"
    ELSE "u_sleep"

BatchFailed(status) ==
    Response(500, FALSE, "File batch failed during vector store processing",
             status, NoFiles)

\* filesInStore.data.find((x) => x.id === fileId): the index of the first
\* match, 0 when there is none
RECURSIVE FindFrom(_, _, _)
FindFrom(data, id, i) ==
    IF i > Len(data) THEN 0
    ELSE IF data[i].id = id THEN i
    ELSE FindFrom(data, id, i + 1)

Find(data, id) == FindFrom(data, id, 1)

\* a slip: the entry's own status is not looked at
CheckEntry_IgnoresStatus(data, id) ==
    IF Find(data, id) = 0
    THEN Response(500, FALSE,
                  "File not found in vector store after batch completed", "", data)
    ELSE Response(200, TRUE, "", "", data)

\* a slip: a missing entry is thrown into the catch block
CheckEntry_MissingIsThrown(data, id) ==
    LET i == Find(data, id) IN
    IF i = 0
    THEN UploadCatch("undefined")
    ELSE IF data[i].status = "failed"
    THEN Response(500, FALSE, "Vector store indexing failed for this file", "",
                  <<data[i]>>)
    ELSE Response(200, TRUE, "", "", data)

\* step 6 of the handler, once the list has been returned
CheckEntry(data, id) ==
    LET i == Find(data, id) IN
    IF i = 0
    THEN Response(500, FALSE,
                  "File not found in vector store after batch completed", "", data)
    ELSE IF data[i].status = "failed"
    THEN Response(500, FALSE, "Vector store indexing failed for this file", "",
                  <<data[i]>>)
    ELSE Response(200, TRUE, "", "", data)

Respond(r) == responses' = Append(responses, r)

UploadLocals == <<fileId, vectorStoreId, batchId>>
WaitLocals == <<timeoutMs, waitResult>>
Outputs == <<request, askData, workbook>>

\* the request arrives; multer gives req.file or not
UploadReceive ==
    /\ pc = "idle"
    /\ route' = "upload"
    /\ \E hasFile \in BOOLEAN :
         IF hasFile
         THEN /\ pc' = "u_createFile"
              /\ UNCHANGED responses
         ELSE /\ Respond(Response(400, FALSE,
                     "No file uploaded (field name must be 'file').", "", NoFiles))
              /\ pc' = "done"
    /\ UNCHANGED <<clock, log, UploadLocals, start, WaitLocals, Outputs>>

\* a step that awaits a created object and asserts its id; no step before the
\* polling loop reads the clock, and time is counted from the loop's first poll
CreateStep(here, op, name, ids, next) ==
    /\ pc = here
    /\ \E r \in {Threw(m) : m \in RemoteErrors} \cup {Returned(v) : v \in RemoteIds(ids)} :
         LET a == IF r.threw THEN r ELSE assertString(name, r.value) IN
         /\ log' = Append(log, Call(op, IF r.threw THEN "threw" ELSE JsString(r.value),
                                    NoFiles, clock))
         /\ IF a.threw
            THEN /\ Respond(UploadCatch(a.message))
                 /\ pc' = "done"
                 /\ UNCHANGED UploadLocals
            ELSE /\ UNCHANGED responses
                 /\ pc' = next
                 /\ fileId' = IF here = "u_createFile" THEN a.value ELSE fileId
                 /\ vectorStoreId' = IF here = "u_createStore" THEN a.value
                                     ELSE vectorStoreId
                 /\ batchId' = IF here = "u_createBatch" THEN a.value ELSE batchId

UploadCreateFile ==
    /\ CreateStep("u_createFile", "files.create", "uploadedFile.id", FileIds,
                  "u_createStore")
    /\ UNCHANGED <<route, clock, start, WaitLocals, Outputs>>

UploadCreateStore ==
    /\ CreateStep("u_createStore", "vectorStores.create", "vectorStore.id", {"vs-1"},
                  "u_createBatch")
    /\ UNCHANGED <<route, clock, start, WaitLocals, Outputs>>

\* the loop is entered right after the batch is created: start is the time of
\* its first poll
UploadCreateBatch ==
    /\ CreateStep("u_createBatch", "fileBatches.create", "batch.id", {"batch-1"},
                  "u_poll")
    /\ start' = clock
    /\ UNCHANGED <<route, clock, WaitLocals, Outputs>>

Polls(op) == Cardinality({i \in 1..Len(log) : log[i].op = op})

\* const b = await retrieveBatch(...), and the two tests on b.status
UploadPoll ==
    /\ pc = "u_poll"
    /\ Polls("fileBatches.retrieve") < MaxPolls
    /\ \E lag \in Lags : clock' = clock + lag
    /\ \E r \in {Threw(m) : m \in RemoteErrors} \cup {Returned(s) : s \in BatchStatuses} :
         /\ log' = Append(log, Call("fileBatches.retrieve",
                                    IF r.threw THEN "threw" ELSE r.value,
                                    NoFiles, clock'))
         /\ IF r.threw
            THEN /\ Respond(UploadCatch(r.message))
                 /\ pc' = "done"
            ELSE LET step == BatchPollStep(r.value) IN
                 /\ pc' = IF step = "fail" THEN "done" ELSE step
                 /\ IF step = "fail"
                    THEN Respond(BatchFailed(r.value))
                    ELSE UNCHANGED responses
    /\ UNCHANGED <<route, UploadLocals, start, WaitLocals, Outputs>>

\* await sleep(1500); a timer that fires late is not told apart from a slow
\* following call, whose latency the next step adds
UploadSleep ==
    /\ pc = "u_sleep"
    /\ clock' = clock + PollIntervalMs
    /\ log' = Append(log, Call("sleep", "", NoFiles, clock'))
    /\ pc' = "u_poll"
    /\ UNCHANGED <<route, responses, UploadLocals, start, WaitLocals, Outputs>>

Entries == [id : FileIds, status : FileStatuses]

FileLists == UNION {[1..n -> Entries] : n \in 0..MaxFiles}

\* const filesInStore = await openai.vectorStores.files.list(vectorStoreId), and
\* the rest of the handler
UploadList ==
    /\ pc = "u_list"
    /\ \E r \in {Threw(m) : m \in RemoteErrors} \cup {Returned(d) : d \in FileLists} :
         /\ log' = Append(log, Call("files.list", IF r.threw THEN "threw" ELSE "listed",
                                    IF r.threw THEN NoFiles ELSE r.value, clock))
         /\ Respond(IF r.threw THEN UploadCatch(r.message)
                    ELSE CheckEntry(r.value, fileId))
    /\ pc' = "done"
    /\ UNCHANGED <<route, clock, UploadLocals, start, WaitLocals, Outputs>>

----------------------------------------------------------------------------
(* waitForVectorStoreReady *)

StoreStatuses == {"in_progress", "completed", "expired"}

Timeouts == {k * PollIntervalMs : k \in 0..MaxTimeoutSteps}

NotCalled == [kind |-> "none", status |-> "", message |-> ""]

\* a slip: >= for >
WaitPollStep_ThrowsAtDeadline(status, elapsed, timeout) ==
    IF status = "completed" THEN "return"
    ELSE IF elapsed >= timeout THEN "throw"
    ELSE "w_sleep"

\* the body of one iteration of the loop after the store was retrieved: where
\* the function goes next ("return" and "throw": it is over)
WaitPollStep(status, elapsed, timeout) ==
    IF status = "completed" THEN "return"
    ELSE IF elapsed > timeout THEN "throw"
    ELSE "w_sleep"

TimedOutMessage(id, status) ==
    "Timed out waiting for vector store " \o id \o " to be ready (last status: "
        \o status \o ")"

\* the function is called: const start = Date.now()
WaitCall ==
    /\ pc = "idle"
    /\ route' = "wait"
    /\ \E t \in Timeouts : timeoutMs' = t
    /\ \E lag \in Lags : clock' = clock + lag
    /\ start' = clock'
    /\ vectorStoreId' = "vs-1"
    /\ pc' = "w_retrieve"
    /\ UNCHANGED <<log, responses, fileId, batchId, waitResult, Outputs>>

\* const vs = await openai.vectorStores.retrieve(vectorStoreId), and the two tests
WaitRetrieve ==
    /\ pc = "w_retrieve"
    /\ Polls("vectorStores.retrieve") < MaxPolls + MaxTimeoutSteps
    /\ \E lag \in Lags : clock' = clock + lag
    /\ \E r \in {Threw(m) : m \in RemoteErrors} \cup {Returned(s) : s \in StoreStatuses} :
         /\ log' = Append(log, Call("vectorStores.retrieve",
                                    IF r.threw THEN "threw" ELSE r.value,
                                    NoFiles, clock'))
         /\ IF r.threw
            THEN /\ waitResult' = [kind |-> "thrown", status |-> "", message |-> r.message]
                 /\ pc' = "done"
            ELSE LET step == WaitPollStep(r.value, clock' - start, timeoutMs) IN
                 /\ pc' = IF step \in {"return", "throw"} THEN "done" ELSE step
                 /\ waitResult' =
                      CASE step = "return" ->
                             [kind |-> "returned", status |-> r.value, message |-> ""]
                        [] step = "throw" ->
                             [kind |-> "thrown", status |-> "",
                              message |-> TimedOutMessage(vectorStoreId, r.value)]
                        [] OTHER -> waitResult
    /\ UNCHANGED <<route, responses, UploadLocals, start, timeoutMs, Outputs>>

\* await sleep(1500)
WaitSleep ==
    /\ pc = "w_sleep"
    /\ clock' = clock + PollIntervalMs
    /\ log' = Append(log, Call("sleep", "", NoFiles, clock'))
    /\ pc' = "w_retrieve"
    /\ UNCHANGED <<route, responses, UploadLocals, start, WaitLocals, Outputs>>

----------------------------------------------------------------------------
(* Tables, rows and cells, shared by /ask and /export/excel *)

\* an array, or anything Array.isArray rejects (undefined, null, a string)
Arr(items) == [isArray |-> TRUE, items |-> items]
NotArr == [isArray |-> FALSE, items |-> <<>>]

\* a plain object as JSON.parse and express.json() build it: its own
\* properties in insertion order; null where an object was expected
Prop(k, v) == [k |-> k, v |-> v]
Obj(props) == [isObject |-> TRUE, props |-> props]
NullRow == [isObject |-> FALSE, props |-> <<>>]

\* what every plain object inherits from Object.prototype (two of its members)
ObjectPrototype == [constructor |-> Fn("Object"), toString |-> Fn("toString")]

RECURSIVE OwnIndexFrom(_, _, _)
OwnIndexFrom(props, c, i) ==
    IF i > Len(props) THEN 0
    ELSE IF props[i].k = c THEN i
    ELSE OwnIndexFrom(props, c, i + 1)

\* r?.[c]: undefined for a null r; an own property; else what the prototype
\* chain holds under that name; else undefined
Get(r, c) ==
    IF ~r.isObject THEN Undefined
    ELSE LET i == OwnIndexFrom(r.props, c, 1) IN
         IF i # 0 THEN r.props[i].v
         ELSE IF c \in DOMAIN ObjectPrototype THEN ObjectPrototype[c]
         ELSE Undefined

Table(tableName, columns, rows) ==
    [tableName |-> tableName, columns |-> columns, rows |-> rows]

Range(q) == {q[i] : i \in 1..Len(q)}

\* columns.map(String)
MapString(items) == [i \in 1..Len(items) |-> JsString(items[i])]

LongName == "XXXXXXXXXXXXXXXXXXXXXXXXXXXXXX"

\* the tables a model output or a request body is built from
TablePool ==
    { Table(Str("A:B"), Arr(<<Str("id"), Str("note")>>),
            Arr(<<Obj(<<Prop("id", Num(5))>>)>>)),
      Table(Str(""), NotArr,
            Arr(<<Obj(<<Prop("id", Num(5)), Prop("extra", Str("x"))>>), NullRow>>)),
      Table(Undefined, Arr(<<Str("constructor")>>), Arr(<<Obj(<<>>)>>)),
      Table(Str("A B 2"), Arr(<<Str("id"), Num(7)>>),
            Arr(<<Obj(<<Prop("7", Str("x")), Prop("id", Null)>>)>>)),
      Table(Str(LongName \o " tail"), Arr(<<Str("id")>>), Arr(<<>>)),
      Table(Str(LongName \o " other"), Arr(<<Str("id")>>), NotArr),
      Table(Str("[*]"), Arr(<<>>), Arr(<<>>)),
      Table(Str("Table 2"), Arr(<<Str("note")>>),
            Arr(<<Obj(<<Prop("note", Str(""))>>), Obj(<<Prop("id", Str("a"))>>)>>)),
      Table(Null, NotArr, NotArr) }

TableLists == UNION {[1..n -> TablePool] : n \in 0..MaxTables}

----------------------------------------------------------------------------
(* GET /ask/:fileId *)

StartsWith(s, p) == Len(s) >= Len(p) /\ SubSeq(s, 1, Len(p)) = p

\* the row of the response for row r of a table with these columns
AskRow(columns, r) ==
    [c \in Range(columns) |-> JsString(Nullish(Get(r, c), Str("")))]

\* String(t?.tableName ?? "Unnamed Table")
AskTableName(t) == JsString(Nullish(t.tableName, Str("Unnamed Table")))

\* parsed.tables.map((t) => ...)
AskTable(t) ==
    LET columns == IF t.columns.isArray THEN MapString(t.columns.items) ELSE <<>>
        rows == IF t.rows.isArray
                THEN [i \in 1..Len(t.rows.items) |-> AskRow(columns, t.rows.items[i])]
                ELSE <<>>
    IN [tableName |-> AskTableName(t), columns |-> columns, rows |-> rows]

AskTables(tables) == [k \in 1..Len(tables) |-> AskTable(tables[k])]

\* catch (err): err?.message ?? "Ask failed"
AskCatch(message) ==
    Response(500, FALSE, IF message = "undefined" THEN "Ask failed" ELSE message,
             "", NoFiles)

\* response.output_text: text JSON.parse rejects, the text "null", an object
\* without a tables array, or an object with one
ModelOutputs ==
    {[json |-> FALSE, isNull |-> FALSE, tables |-> NotArr],
     [json |-> TRUE, isNull |-> TRUE, tables |-> NotArr],
     [json |-> TRUE, isNull |-> FALSE, tables |-> NotArr]}
    \cup {[json |-> TRUE, isNull |-> FALSE, tables |-> Arr(q)] : q \in TableLists}

\* the request arrives: the test on req.params.fileId
AskReceive ==
    /\ pc = "idle"
    /\ route' = "ask"
    /\ \E id \in {"file-1", "file", "abc"} :
         /\ fileId' = id
         /\ IF StartsWith(id, "file-")
            THEN /\ pc' = "a_create"
                 /\ UNCHANGED responses
            ELSE /\ Respond(Response(400, FALSE,
                       "Invalid fileId. Expected a path param like /ask/file-...",
                       "", NoFiles))
                 /\ pc' = "done"
    /\ UNCHANGED <<clock, log, vectorStoreId, batchId, start, WaitLocals, Outputs>>

\* const response = await openai.responses.create(...), and the rest of the handler
AskCreate ==
    /\ pc = "a_create"
    /\ pc' = "done"
    /\ \E r \in {Threw(m) : m \in RemoteErrors} \cup {Returned(o) : o \in ModelOutputs} :
         /\ log' = Append(log, Call("responses.create",
                                    IF r.threw THEN "threw" ELSE "created",
                                    NoFiles, clock))
         /\ IF r.threw
            THEN /\ Respond(AskCatch(r.message))
                 /\ UNCHANGED <<request, askData>>
            ELSE IF ~r.value.json
            THEN /\ Respond(Response(500, FALSE, "Model did not return valid JSON.",
                                     "", NoFiles))
                 /\ UNCHANGED <<request, askData>>
            ELSE IF r.value.isNull
            THEN /\ Respond(AskCatch(
                       "Cannot read properties of null (reading 'documentText')"))
                 /\ UNCHANGED <<request, askData>>
            ELSE /\ request' = r.value.tables.items
                 /\ askData' = IF r.value.tables.isArray
                               THEN AskTables(r.value.tables.items)
                               ELSE <<>>
                 /\ Respond(Response(200, TRUE, "", "", NoFiles))
    /\ UNCHANGED <<route, clock, UploadLocals, start, WaitLocals, workbook>>

----------------------------------------------------------------------------
(* POST /export/excel *)

ForbiddenChars == {":", "\\", "/", "?", "*", "[", "]"}

\* .replace(/[:\\/?*\[\]]/g, " ")
RECURSIVE ReplaceForbidden(_)
ReplaceForbidden(s) ==
    IF Len(s) = 0 THEN s
    ELSE (IF CharAt(s, 1) \in ForbiddenChars THEN " " ELSE CharAt(s, 1))
         \o ReplaceForbidden(SubSeq(s, 2, Len(s)))

\* .replace(/\s+/g, " ")
RECURSIVE CollapseSpaces(_)
CollapseSpaces(s) ==
    IF Len(s) = 0 THEN s
    ELSE IF IsSpace(CharAt(s, 1))
    THEN " " \o CollapseSpaces(TrimStart(s))
    ELSE CharAt(s, 1) \o CollapseSpaces(SubSeq(s, 2, Len(s)))

safeSheetName(name, fallback) ==
    LET cleaned == Slice(Trim(CollapseSpaces(ReplaceForbidden(
                       IF name = "" THEN fallback ELSE name))), MaxSheetNameLen)
    IN IF Len(cleaned) > 0 THEN cleaned ELSE fallback

\* a slip: the base is not cut again before the suffix is added
Suffixed_NotCut(base, i) == Trim(base \o " " \o ToString(i))

\* the candidate of one iteration of the loop: suffix = ` ${i}`
Suffixed(base, i) ==
    LET suffix == " " \o ToString(i)
    IN Trim(Slice(base, MaxSheetNameLen - Len(suffix)) \o suffix)

RECURSIVE UniqueFrom(_, _, _, _)
UniqueFrom(base, used, name, i) ==
    IF name \in used
    THEN UniqueFrom(base, used, Suffixed(base, i), i + 1)
    ELSE name

\* the name returned; the caller's set becomes used \cup {that name}
uniqueSheetName(base, used) == UniqueFrom(base, used, base, 2)

\* v === null || v === undefined ? "" : String(v), for each column
normalizeRows(columns, rows) ==
    [i \in 1..Len(rows) |->
        [c \in Range(columns) |->
            LET v == Get(rows[i], c)
            IN IF v.t \in {"null", "undefined"} THEN "" ELSE JsString(v)]]

\* Object.keys(r ?? {})
Keys(r) == [i \in 1..Len(r.props) |-> r.props[i].k]

\* Array.from(new Set(q)): the first occurrence of each element, in order
RECURSIVE Dedupe(_, _)
Dedupe(q, seen) ==
    IF Len(q) = 0 THEN <<>>
    ELSE IF Head(q) \in seen THEN Dedupe(Tail(q), seen)
    ELSE <<Head(q)>> \o Dedupe(Tail(q), seen \cup {Head(q)})

\* rows.flatMap((r) => Object.keys(r ?? {}))
RECURSIVE FlatKeys(_)
FlatKeys(rows) ==
    IF Len(rows) = 0 THEN <<>> ELSE Keys(Head(rows)) \o FlatKeys(Tail(rows))

\* `Table ${idx + 1}`, idx counted from 0
Positional(k) == "Table " \o ToString(k)

\* const baseName, for the k-th table (k counted from 1)
BaseName(t, k) ==
    safeSheetName(IF t.tableName.t = "string" THEN t.tableName.s ELSE Positional(k),
                  Positional(k))

\* the body of tables.forEach for the k-th table, given its sheet name
Sheet(t, sheetName) ==
    LET columns == IF t.columns.isArray THEN MapString(t.columns.items) ELSE <<>>
        rows == IF t.rows.isArray THEN t.rows.items ELSE <<>>
        finalColumns == IF Len(columns) > 0 THEN columns
                        ELSE Dedupe(FlatKeys(rows), {})
    IN IF Len(finalColumns) = 0
       THEN [name |-> sheetName, columns |-> <<"message">>,
             rows |-> <<[c \in {"message"} |-> "Table had no columns/rows."]>>]
       ELSE [name |-> sheetName, columns |-> finalColumns,
             rows |-> normalizeRows(finalColumns, rows)]

\* tables.forEach(...): the sheets added after those of wb
RECURSIVE Sheets(_, _)
Sheets(tables, wb) ==
    IF Len(wb) = Len(tables) THEN wb
    ELSE LET k == Len(wb) + 1
             used == {wb[j].name : j \in 1..Len(wb)}
             sheetName == uniqueSheetName(BaseName(tables[k], k), used)
         IN Sheets(tables, Append(wb, Sheet(tables[k], sheetName)))

\* catch (err): err?.message ?? "Excel export failed"
ExportCatch(message) ==
    Response(500, FALSE, IF message = "undefined" THEN "Excel export failed" ELSE message,
             "", NoFiles)

\* the request arrives: the handler up to await wb.xlsx.writeBuffer()
ExportReceive ==
    /\ pc = "idle"
    /\ route' = "export"
    /\ \E body \in {NotArr} \cup {Arr(q) : q \in TableLists} :
         LET tables == IF body.isArray THEN body.items ELSE <<>> IN
         /\ request' = tables
         /\ IF Len(tables) = 0
            THEN /\ Respond(Response(400, FALSE,
                       "No tables found. Expected JSON with data.tables[] (paste the full /ask response or the inner data object).",
                       "", NoFiles))
                 /\ pc' = "done"
                 /\ UNCHANGED workbook
            ELSE /\ workbook' = Sheets(tables, <<>>)
                 /\ pc' = "e_write"
                 /\ UNCHANGED responses
    /\ UNCHANGED <<clock, log, UploadLocals, start, WaitLocals, askData>>

\* const buffer = await wb.xlsx.writeBuffer(), and the response
ExportWrite ==
    /\ pc = "e_write"
    /\ pc' = "done"
    /\ \E r \in {Threw(m) : m \in RemoteErrors} \cup {Returned("buffer")} :
         Respond(IF r.threw THEN ExportCatch(r.message)
                 ELSE Response(200, TRUE, "", "", NoFiles))
    /\ UNCHANGED <<route, clock, log, UploadLocals, start, WaitLocals, Outputs>>

----------------------------------------------------------------------------

Init ==
    /\ route = "none"
    /\ pc = "idle"
    /\ clock = 0
    /\ log = <<>>
    /\ responses = <<>>
    /\ fileId = ""
    /\ vectorStoreId = ""
    /\ batchId = ""
    /\ start = 0
    /\ timeoutMs = 0
    /\ waitResult = NotCalled
    /\ request = <<>>
    /\ askData = <<>>
    /\ workbook = <<>>

Next ==
    \/ UploadReceive
    \/ UploadCreateFile
    \/ UploadCreateStore
    \/ UploadCreateBatch
    \/ UploadPoll
    \/ UploadSleep
    \/ UploadList
    \/ WaitCall
    \/ WaitRetrieve
    \/ WaitSleep
    \/ AskReceive
    \/ AskCreate
    \/ ExportReceive
    \/ ExportWrite

Spec == Init /\ [][Next]_vars

----------------------------------------------------------------------------
(* Properties *)

IsUpload == route = "upload"
IsWait == route = "wait"

BatchPolls == {i \in 1..Len(log) : log[i].op = "fileBatches.retrieve"}
StorePolls == {i \in 1..Len(log) : log[i].op = "vectorStores.retrieve"}
SleepsDone == {i \in 1..Len(log) : log[i].op = "sleep"}

NotFoundError == "File not found in vector store after batch completed"
BatchFailedError == "File batch failed during vector store processing"
FileFailedError == "Vector store indexing failed for this file"

\* the list the handler was given, when the listing was made and returned one
Listed == Len(log) > 0 /\ Last(log).op = "files.list" /\ Last(log).status = "listed"

\* C1: POST /upload answers ok:true only if some poll of the job returned
\* "completed" and the list fetched afterwards holds an entry with the uploaded
\* fileId whose status is not "failed"; a completed job whose entry for the
\* file is "failed" is answered 500 ok:false.
C1_SuccessOnlyWhenFileReady ==
    IsUpload =>
      /\ \A n \in 1..Len(responses) :
           responses[n].ok =>
             /\ \E i \in BatchPolls : log[i].status = "completed"
             /\ Listed
             /\ \A i \in BatchPolls : i < Len(log)
             /\ \E j \in 1..Len(Last(log).data) :
                  /\ Last(log).data[j].id = fileId
                  /\ Last(log).data[j].status # "failed"
      /\ (Listed /\ \E j \in 1..Len(Last(log).data) :
                       /\ Last(log).data[j].id = fileId
                       /\ Last(log).data[j].status = "failed"
                       /\ \A h \in 1..(j - 1) : Last(log).data[h].id # fileId)
           => /\ Len(responses) = 1
              /\ responses[1].code = 500
              /\ ~responses[1].ok

\* a job completed after a wait, the list has the file as completed and the
\* other file as failed, and the request was answered ok:true
C1_Witness ==
    /\ IsUpload
    /\ Len(responses) = 1 /\ responses[1].ok
    /\ Cardinality(BatchPolls) >= 2
    /\ Listed
    /\ \E j, h \in 1..Len(Last(log).data) :
         /\ Last(log).data[j].id = fileId /\ Last(log).data[j].status = "completed"
         /\ Last(log).data[h].id # fileId /\ Last(log).data[h].status = "failed"

\* C2 (as claimed): the job-polling loop of POST /upload is bounded by a job
\* timeout: once the time since the first poll exceeds it, no further sleep
\* (and so no further poll) is begun.  upload.ts names no timeout; the claim
\* is stated for whichever of Timeouts it may be.
C2_UploadPollingBounded ==
    (IsUpload /\ pc = "u_sleep") => \E T \in Timeouts : clock - start <= T

\* C3: the first poll of POST /upload whose status is "failed" ends the
\* request with a 500 ok:false response carrying the job state; no fetch, sleep
\* or listing follows it.
C3_FailedPollEndsRequest ==
    IsUpload =>
      \A i \in BatchPolls :
        log[i].status = "failed" =>
          /\ i = Len(log)
          /\ pc = "done"
          /\ Len(responses) = 1
          /\ responses[1].code = 500
          /\ ~responses[1].ok
          /\ responses[1].error = BatchFailedError
          /\ responses[1].batchStatus = "failed"

\* the job failed on a poll that was not the first one
C3_Witness ==
    /\ IsUpload
    /\ Cardinality(BatchPolls) >= 2
    /\ Last(log).op = "fileBatches.retrieve" /\ Last(log).status = "failed"
    /\ Len(responses) = 1

\* the errors a caught exception can carry in this handler
CaughtErrors ==
    {UploadCatch(m).error : m \in RemoteErrors}
    \cup {assertString(nm, v).message :
            nm \in {"uploadedFile.id", "vectorStore.id", "batch.id"},
            v \in {Str(""), Str("  "), Undefined}}

\* C4: when the job completed and the list has no entry for the uploaded
\* fileId, POST /upload answers 500 ok:false with the 'not found after batch
\* completed' error, which no other failure of the handler uses.
C4_MissingEntryIsDistinctError ==
    IsUpload =>
      /\ (Listed /\ \A j \in 1..Len(Last(log).data) : Last(log).data[j].id # fileId)
           => /\ Len(responses) = 1
              /\ responses[1].code = 500
              /\ ~responses[1].ok
              /\ responses[1].error = NotFoundError
      /\ \A n \in 1..Len(responses) :
           responses[n].error = NotFoundError
             => /\ Listed
                /\ \A j \in 1..Len(Last(log).data) : Last(log).data[j].id # fileId
      /\ NotFoundError \notin {BatchFailedError, FileFailedError} \cup CaughtErrors

\* the job completed and the list holds only the other file
C4_Witness ==
    /\ IsUpload
    /\ Listed
    /\ Len(Last(log).data) = 1
    /\ Last(log).data[1].id # fileId
    /\ Len(responses) = 1 /\ responses[1].error = NotFoundError

\* the fetches and sleeps of the polling loop, in order
LoopOps == {"fileBatches.retrieve", "vectorStores.retrieve", "sleep"}
IsLoopOp(c) == c.op \in LoopOps
Loop == SelectSeq(log, IsLoopOp)

NonTerminal(status) ==
    IF IsUpload THEN status \notin {"completed", "failed", "threw"}
    ELSE status \notin {"completed", "threw"}

\* C5: when the status source gives N non-terminal values and then
\* "completed", a polling loop (that of POST /upload, and
\* waitForVectorStoreReady within its deadline) makes exactly N+1 fetches and N
\* sleeps, one sleep between two consecutive fetches, and ends in success.
C5_PollsOncePerStatus ==
    (IsUpload \/ IsWait) =>
      /\ \A i \in 1..Len(Loop) :
           IF i % 2 = 1 THEN Loop[i].op # "sleep" ELSE Loop[i].op = "sleep"
      /\ \A i \in 1..Len(Loop) :
           (Loop[i].op # "sleep" /\ i < Len(Loop)) => NonTerminal(Loop[i].status)
      /\ (Len(Loop) > 0 /\ Last(Loop).status = "completed") =>
           LET N == Cardinality({i \in 1..Len(Loop) :
                                   Loop[i].op # "sleep" /\ NonTerminal(Loop[i].status)})
           IN /\ Cardinality(BatchPolls \cup StorePolls) = N + 1
              /\ Cardinality(SleepsDone) = N
              /\ \A i \in SleepsDone :
                   log[i].at - log[i - 1].at >= PollIntervalMs
              /\ IF IsUpload
                 THEN pc \in {"u_list", "done"}
                      /\ (pc = "done" => Last(log).op = "files.list")
                 ELSE pc = "done"
                      /\ waitResult = [kind |-> "returned", status |-> "completed",
                                       message |-> ""]

\* waitForVectorStoreReady returned the completed store after two
\* non-terminal statuses
C5_Witness ==
    /\ IsWait
    /\ waitResult.kind = "returned"
    /\ Cardinality(StorePolls) = 3
    /\ Cardinality(SleepsDone) = 2

IsTimedOut ==
    /\ waitResult.kind = "thrown"
    /\ \E st \in StoreStatuses :
         waitResult.message = TimedOutMessage(vectorStoreId, st)

\* C6: with a status source that never gives "completed",
\* waitForVectorStoreReady throws the timed-out error, naming the status of
\* the last fetch, at the first fetch after which the elapsed time exceeds
\* timeoutMs: not while it is at most timeoutMs, with no fetch or sleep after
\* it; and it returns only a store whose status is "completed".
C6_WaitTimesOutAtDeadline ==
    IsWait =>
      /\ IsTimedOut =>
           /\ pc = "done"
           /\ clock - start > timeoutMs
           /\ Last(log).op = "vectorStores.retrieve"
           /\ Last(log).at = clock
           /\ Last(log).status \notin {"completed", "threw"}
           /\ waitResult.message = TimedOutMessage(vectorStoreId, Last(log).status)
      /\ \A i \in StorePolls :
           (log[i].status \notin {"completed", "threw"}
              /\ log[i].at - start > timeoutMs)
             => (i = Len(log) /\ IsTimedOut)
      /\ \A i \in StorePolls :
           (log[i].status \notin {"completed", "threw"}
              /\ log[i].at - start <= timeoutMs)
             => IF i = Len(log)
                THEN pc = "w_sleep" /\ waitResult = NotCalled
                ELSE log[i + 1].op = "sleep"
      /\ pc = "w_sleep" => clock - start <= timeoutMs
      /\ waitResult.kind = "returned" =>
           /\ waitResult.status = "completed"
           /\ Last(log).status = "completed"

\* the call timed out on its third fetch, the elapsed time having been exactly
\* timeoutMs at an earlier one
C6_Witness ==
    /\ IsWait
    /\ IsTimedOut
    /\ Cardinality(StorePolls) >= 3
    /\ \E i \in StorePolls : log[i].at - start = timeoutMs /\ timeoutMs > 0

IsExport == route = "export"
IsAsk == route = "ask"

SheetNames == [k \in 1..Len(workbook) |-> workbook[k].name]

\* the name of the k-th sheet made from base with the numeric suffix i
WithSuffix(base, i) ==
    Slice(base, MaxSheetNameLen - Len(" " \o ToString(i))) \o " " \o ToString(i)

RequestNames == [k \in 1..Len(request) |-> request[k].tableName]

\* C7: the sheet names of one export are pairwise distinct, non-empty and at
\* most 31 characters; a name that collides with an earlier one of the export
\* gets the smallest unused suffix " 2", " 3", ... on the re-truncated base;
\* the names "A:B", "A:B", "" give "A B", "A B 2", "Table 3".
C7_SheetNamesDistinctAndBounded ==
    (IsExport /\ Len(request) > 0) =>
      /\ Len(workbook) = Len(request)
      /\ \A k \in 1..Len(workbook) :
           /\ SheetNames[k] # ""
           /\ Len(SheetNames[k]) <= MaxSheetNameLen
           /\ \A j \in 1..(k - 1) : SheetNames[j] # SheetNames[k]
           /\ LET base == BaseName(request[k], k)
                  earlier == {SheetNames[j] : j \in 1..(k - 1)}
              IN IF base \notin earlier
                 THEN SheetNames[k] = base
                 ELSE \E i \in 2..(k + 1) :
                        /\ SheetNames[k] = WithSuffix(base, i)
                        /\ \A h \in 2..(i - 1) : WithSuffix(base, h) \in earlier
      /\ RequestNames = <<Str("A:B"), Str("A:B"), Str("")>>
           => SheetNames = <<"A B", "A B 2", "Table 3">>

\* the export of the claim's example
C7_Witness ==
    /\ IsExport
    /\ RequestNames = <<Str("A:B"), Str("A:B"), Str("")>>
    /\ SheetNames = <<"A B", "A B 2", "Table 3">>

\* two names with the same first 31 characters: the second is cut again to
\* make room for its suffix
C7_TruncationReached ==
    /\ IsExport
    /\ \E k \in 1..Len(workbook) :
         /\ Len(SheetNames[k]) = MaxSheetNameLen
         /\ SheetNames[k] = Slice(LongName, MaxSheetNameLen - 2) \o " 2"

\* C8 (as claimed): in the normalization of GET /ask/:fileId a table without
\* a name gets the positional name "Table k", k its 1-based position.
C8_UnnamedTableGetsPositionalName ==
    IsAsk =>
      \A k \in 1..Len(askData) :
        request[k].tableName.t \in {"undefined", "null"}
          => askData[k].tableName = "Table " \o ToString(k)

\* what the code gives such a table
C8_UnnamedTableIsUnnamedTable ==
    IsAsk =>
      \A k \in 1..Len(askData) :
        request[k].tableName.t \in {"undefined", "null"}
          => askData[k].tableName = "Unnamed Table"

\* the cell the claim gives row r under column c: the string form of the value
\* the row holds for c, the empty string when it holds none (or null)
RECURSIVE Held(_, _, _)
Held(props, c, i) ==
    IF i > Len(props) THEN Undefined
    ELSE IF props[i].k = c THEN props[i].v
    ELSE Held(props, c, i + 1)

ClaimedCell(r, c) ==
    LET v == IF r.isObject THEN Held(r.props, c, 1) ELSE Undefined
    IN IF v.t \in {"undefined", "null"} THEN "" ELSE JsString(v)

InputRows(t) == IF t.rows.isArray THEN t.rows.items ELSE <<>>

\* rows out are the normalization of rows in, for the columns, on the columns in cols
RowsNormalized(in, columns, out, cols) ==
    /\ Len(out) = Len(in)
    /\ \A i \in 1..Len(out) :
         /\ DOMAIN out[i] = Range(columns)
         /\ \A c \in Range(columns) \cap cols : out[i][c] = ClaimedCell(in[i], c)

AllStrings == Range(<<"id", "note", "extra", "7", "constructor", "toString", "message">>)

IsPlaceholder(sheet) == sheet.columns = <<"message">>

\* the rows of every table of the response, and of every sheet of the workbook
NormalizedOn(cols) ==
    /\ IsAsk =>
         \A k \in 1..Len(askData) :
           RowsNormalized(InputRows(request[k]), askData[k].columns, askData[k].rows, cols)
    /\ IsExport =>
         \A k \in 1..Len(workbook) :
           ~IsPlaceholder(workbook[k]) =>
             RowsNormalized(InputRows(request[k]), workbook[k].columns,
                            workbook[k].rows, cols)

\* C9 (as claimed): row normalization (of /ask and of the export) gives every
\* input row a row whose keys are exactly the declared columns, each cell the
\* string form of the value present, the empty string for a missing, null or
\* undefined cell; no row is dropped and the order is kept.
C9_RowsNormalizedToDeclaredColumns == NormalizedOn(AllStrings)

\* the same for the columns whose name Object.prototype does not define
C9_HoldsOffThePrototype == NormalizedOn(AllStrings \ DOMAIN ObjectPrototype)

Rank(op) ==
    CASE op = "files.create"         -> 1
      [] op = "vectorStores.create"  -> 2
      [] op = "fileBatches.create"   -> 3
      [] op = "fileBatches.retrieve" -> 4
      [] op = "sleep"                -> 4
      [] op = "files.list"           -> 5

GoodIds == FileIds \cup {"vs-1", "batch-1"}

\* the step recorded as c failed: the call threw, the id is missing, the job failed
StepFailed(c) ==
    \/ c.status = "threw"
    \/ Rank(c.op) <= 3 /\ c.status \notin GoodIds
    \/ c.op = "fileBatches.retrieve" /\ c.status = "failed"

\* C10: a POST /upload request calls createFile, createContainer,
\* createIndexingJob, then fetches the job status one or more times, then
\* lists the per-file results at most once, in this order and with no step
\* taken again; the listing follows a poll that returned "completed"; a
\* failure at any step ends the request with exactly one ok:false response and
\* no further remote call.
C10_UploadStepsInOrder ==
    IsUpload =>
      /\ Len(log) > 0 => log[1].op = "files.create"
      /\ \A i \in 2..Len(log) :
           /\ Rank(log[i].op) - Rank(log[i - 1].op) \in {0, 1}
           /\ Rank(log[i].op) # 4 => Rank(log[i].op) # Rank(log[i - 1].op)
           /\ (Rank(log[i].op) = 4 /\ Rank(log[i - 1].op) = 3)
                => log[i].op = "fileBatches.retrieve"
           /\ log[i].op = "files.list"
                => /\ log[i - 1].op = "fileBatches.retrieve"
                   /\ log[i - 1].status = "completed"
      /\ Len(responses) <= 1
      /\ Len(responses) = 1 <=> pc = "done"
      /\ \A i \in 1..Len(log) :
           StepFailed(log[i]) =>
             /\ i = Len(log)
             /\ pc = "done"
             /\ Len(responses) = 1
             /\ ~responses[1].ok
      /\ (Listed /\ \A j \in 1..Len(Last(log).data) :
                       Last(log).data[j].id = fileId => Last(log).data[j].status = "failed")
           => (Len(responses) = 1 /\ ~responses[1].ok)

\* the container was created without an id: the request ended there
C10_Witness ==
    /\ IsUpload
    /\ Len(log) = 2
    /\ Last(log).op = "vectorStores.create"
    /\ Last(log).status = "undefined"
    /\ pc = "done"
    /\ Len(responses) = 1 /\ ~responses[1].ok

====
